---- MODULE Spec2Model ----
(***************************************************************************)
(* A model of the k-CFAR demonstration notebook: the numeric helpers       *)
(* (estimate_pixels, compute_cfar_threshold, compute_roc_curve), the two   *)
(* sample generators drawing from the process-wide random stream, the      *)
(* plotting callback plot_sea_state and the widget gating handler          *)
(* on_selection_change.                                                    *)
(*                                                                         *)
(* Real numbers are modelled exactly: lengths are integers in millimetres, *)
(* sample magnitudes are integers in tenths, ratios are kept as            *)
(* numerator/denominator pairs and compared by cross-multiplication.       *)
(***************************************************************************)
EXTENDS Integers, Sequences, FiniteSets, TLC

VARIABLES
    pc,              \* which step the modelled call / notebook is at
    target_length,   \* estimate_pixels: first argument (mm)
    other_length,    \* estimate_pixels: a second length, for comparisons (mm)
    resolution,      \* estimate_pixels: second argument (mm)
    est_pixels,  \* estimate_pixels(target_length, resolution), 0 before the call
    est_other_pixels,  \* estimate_pixels(other_length, resolution), 0 before the call
    cfar_data,  \* compute_cfar_threshold: the clutter samples (tenths)
    cfar_pfa,  \* compute_cfar_threshold: the probability of false alarm
    cfar_other_pfa,  \* a second PFA, for comparisons
    factor,          \* a positive constant the clutter samples are multiplied by
    threshold,       \* outcome of compute_cfar_threshold(data, pfa)
    other_threshold, \* outcome of compute_cfar_threshold(data, other_pfa)
    scaled_threshold, \* outcome of compute_cfar_threshold(factor * data, pfa)
    roc_clutter,     \* compute_roc_curve: clutter_data (tenths)
    roc_target,      \* compute_roc_curve: target_data (tenths)
    roc_threshold,   \* compute_roc_curve: cfar_threshold
    roc,             \* what compute_roc_curve returned
    gen_rng,         \* the random stream before a generator is called
    gen_args,        \* generate_*_data: rcs, snr_db, size, pixels, nesz
    gen_out,         \* what the generator call did: outcome, value, stream after
    run,             \* per notebook run: the stream and the last plot_sea_state call
    args,            \* the arguments of the last plot_sea_state invocation
    selected,        \* the targets of the plot_sea_state invocations so far, in order
    sea_state_widget, \* Dropdown 'Sea State:'   [value, disabled]
    pfa_widget,      \* FloatLogSlider 'PFA'     [value (exponent, tenths), disabled]
    target_widget,   \* Dropdown 'Target:'
    snr_widget,      \* FloatSlider 'SNR (dB)'
    nesz_widget,     \* FloatSlider 'NESZ (dB)'  [value (tenths of a dB), disabled]
    hist_widget,     \* Checkbox 'Include Histogram'
    roc_widget       \* Checkbox 'Include ROC Curve'

pixVars == <<target_length, other_length, resolution, est_pixels, est_other_pixels>>
thrVars == <<cfar_data, cfar_pfa, cfar_other_pfa, factor, threshold, other_threshold, scaled_threshold>>
rocVars == <<roc_clutter, roc_target, roc_threshold, roc>>
genVars == <<gen_rng, gen_args, gen_out>>
plotVars == <<run, args, selected>>
uiVars == <<sea_state_widget, pfa_widget, target_widget, snr_widget, nesz_widget,
            hist_widget, roc_widget>>

\* What each part of the model leaves alone.
notPixVars == <<thrVars, rocVars, genVars, plotVars, uiVars>>
notThrVars == <<pixVars, rocVars, genVars, plotVars, uiVars>>
notRocVars == <<pixVars, thrVars, genVars, plotVars, uiVars>>
notGenVars == <<pixVars, thrVars, rocVars, plotVars, uiVars>>
notPlotVars == <<pixVars, thrVars, rocVars, genVars, uiVars>>
notUiVars == <<pixVars, thrVars, rocVars, genVars, plotVars>>

\* Thousandths of a unit: metres to millimetres.
Milli(x) == x * 1000

----------------------------------------------------------------------------
(* Bounds of the model *)

\* Extra ground resolutions tried: 1 m .. MaxRes m (next to the notebook's 10 m).
MaxRes == 3
\* Extra target lengths tried: -1.0 m .. MaxHalfMetres / 2 m in half-metre steps.
MaxHalfMetres == 8
\* Sample sets handed to the numeric helpers have 1 .. MaxLen samples.
MaxLen == 3
\* Clutter samples are multiplied by 1 .. MaxFactor.
MaxFactor == 3
\* Pixel counts 1 .. MaxPixels are tried next to the catalogue's.
MaxPixels == 3
\* plot_sea_state is invoked at most MaxCalls times in a run.
MaxCalls == 2

----------------------------------------------------------------------------
(* Catalogue and constants of the notebook *)

\* Ground resolution of the SAR system in metres.
ground_resolution == 10

TargetNames == {"None", "Fishing Vessel", "Smaller Coaster", "Warship (Frigate)",
                "Bulk Carrier"}

\* RCS value "none" stands for Python's None.
NoRcs == [some |-> FALSE, dbsm |-> 0]
Rcs(v) == [some |-> TRUE, dbsm |-> v]

\* target_info: name -> (RCS in dBsm or None, length in mm).
target_info(t) ==
    CASE t = "None"              -> [rcs |-> NoRcs,   length |-> 0]
      [] t = "Fishing Vessel"    -> [rcs |-> Rcs(8),  length |-> 9144]
      [] t = "Smaller Coaster"   -> [rcs |-> Rcs(20), length |-> 42672]
      [] t = "Warship (Frigate)" -> [rcs |-> Rcs(40), length |-> 103632]
      [] t = "Bulk Carrier"      -> [rcs |-> Rcs(45), length |-> 198120]

----------------------------------------------------------------------------
(* estimate_pixels *)

\* np.ceil of the quotient a / b for b > 0 (\div rounds towards minus infinity).
Ceil(a, b) == -((-a) \div b)

Max(a, b) == IF a >= b THEN a ELSE b

\* A slip that truncates the quotient instead of rounding it up.
estimate_pixels_floor(length, res) == Max(1, length \div res)

\* max(1, int(np.ceil(target_length / ground_resolution)))
estimate_pixels(length, res) == Max(1, Ceil(length, res))

CatalogLengths == {target_info(t).length : t \in TargetNames}

Lengths ==
    CatalogLengths
    \cup {500 * k : k \in -2 .. MaxHalfMetres}
    \cup {Milli(ground_resolution), Milli(ground_resolution) + 1}

Resolutions == {Milli(ground_resolution)} \cup {Milli(r) : r \in 1 .. MaxRes}

InitPixels ==
    /\ pc = "call"
    /\ target_length \in Lengths
    /\ other_length \in Lengths
    /\ resolution \in Resolutions
    /\ est_pixels = 0
    /\ est_other_pixels = 0

EstimatePixels ==
    /\ pc = "call"
    /\ est_pixels' = estimate_pixels(target_length, resolution)
    /\ est_other_pixels' = estimate_pixels(other_length, resolution)
    /\ pc' = "done"
    /\ UNCHANGED <<target_length, other_length, resolution>>
    /\ UNCHANGED notPixVars


----------------------------------------------------------------------------
(* compute_cfar_threshold *)

\* Extended reals as numpy produces them: a finite ratio num / den (den > 0),
\* plus or minus infinity, or NaN.
Finite(n, d) == [kind |-> "finite", num |-> n, den |-> d]
PosInf == [kind |-> "inf", num |-> 1, den |-> 1]
NegInf == [kind |-> "-inf", num |-> -1, den |-> 1]
NaN == [kind |-> "nan", num |-> 0, den |-> 1]

\* a >= b in IEEE arithmetic (false as soon as one side is NaN).
Geq(a, b) ==
    CASE a.kind = "nan" \/ b.kind = "nan" -> FALSE
      [] a.kind = "inf" \/ b.kind = "-inf" -> TRUE
      [] a.kind = "-inf" \/ b.kind = "inf" -> FALSE
      [] OTHER -> a.num * b.den >= b.num * a.den

\* a = b as real numbers (NaN equals nothing).
Same(a, b) ==
    CASE a.kind = "nan" \/ b.kind = "nan" -> FALSE
      [] a.kind # "finite" \/ b.kind # "finite" -> a.kind = b.kind
      [] OTHER -> a.num * b.den = b.num * a.den

\* c * x for an integer c > 0.
TimesPos(c, x) == IF x.kind = "finite" THEN Finite(c * x.num, x.den) ELSE x

\* A PFA value: sign * 10^(tenths / 10).  The slider supplies sign = 1 and
\* tenths in -200 .. 0 (FloatLogSlider base 10, min -20, max 0, step 0.1).
Pfa(sign, tenths) == [sign |-> sign, tenths |-> tenths]
SliderMinTenths == -200
SliderMaxTenths == 0
SliderDefaultTenths == -100

InOpenUnit(p) == p.sign = 1 /\ p.tenths < 0
PfaLeq(p, q) == p.sign = 1 /\ q.sign = 1 /\ p.tenths <= q.tenths

\* The largest exponent (tenths) at which 1 - pfa rounds to 1.0 in double
\* precision: 10^-16.3 < 2^-54 < 10^-16.2.
LastRoundedToOne == -163

\* kolmogi(pfa) in hundredths for pfa = 10^(t / 10), t = -162 .. -1, as
\* k_dist.ppf(1 - pfa) evaluates it (1 - pfa is rounded to a double first, which
\* is why the first entries repeat).
KolmogorovTable ==
    <<
       433, 433, 433, 433, 433, 429, 429, 426, 425, 423, 422, 421, 420, 419, 417, 416, 414, 413,
       411, 410, 409, 407, 406, 404, 403, 401, 400, 399, 397, 396, 394, 393, 391, 390, 388, 387,
       385, 384, 382, 381, 379, 378, 376, 375, 373, 372, 370, 369, 367, 365, 364, 362, 361, 359,
       357, 356, 354, 353, 351, 349, 348, 346, 344, 343, 341, 339, 338, 336, 334, 332, 331, 329,
       327, 325, 324, 322, 320, 318, 317, 315, 313, 311, 309, 307, 305, 304, 302, 300, 298, 296,
       294, 292, 290, 288, 286, 284, 282, 280, 278, 276, 274, 271, 269, 267, 265, 263, 261, 258,
       256, 254, 252, 249, 247, 245, 242, 240, 238, 235, 233, 230, 228, 225, 223, 220, 217, 215,
       212, 209, 206, 204, 201, 198, 195, 192, 189, 186, 183, 180, 176, 173, 170, 166, 163, 159,
       156, 152, 148, 144, 140, 136, 131, 127, 122, 118, 113, 107, 102, 96, 90, 83, 75, 65
    >>

\* k_dist.mean() = sqrt(pi / 2) * ln 2 = 0.8687, in hundredths.
KMean == 87

\* kstwobign().ppf(1 - pfa): NaN when 1 - pfa is outside [0, 1], the support's
\* ends 0 and +infinity at 1 - pfa = 0 and 1 - pfa = 1, else the quantile.
kstwobign_ppf(p) ==
    CASE p.sign = -1 -> NaN
      [] p.sign = 0 -> PosInf
      [] p.tenths > 0 -> NaN
      [] p.tenths = 0 -> Finite(0, 100)
      [] p.tenths <= LastRoundedToOne -> PosInf
      [] OTHER -> Finite(KolmogorovTable[p.tenths - LastRoundedToOne], 100)

RECURSIVE Sum(_)
Sum(s) == IF s = <<>> THEN 0 ELSE Head(s) + Sum(Tail(s))

\* ppf * (np.mean(data) / k_dist.mean()) with mean = sum / len, for len > 0.
ScaleBy(q, sum, len) ==
    CASE q.kind = "nan" -> NaN
      [] q.kind = "finite" -> Finite(q.num * sum, KMean * len)
      [] sum > 0 -> q
      [] sum < 0 -> NegInf
      [] OTHER -> NaN

\* A slip that returns the quantile without rescaling it by the clutter mean.
compute_cfar_threshold_unscaled(d, p) ==
    [outcome |-> "returned", value |-> kstwobign_ppf(p)]

\* compute_cfar_threshold(data, pfa): no validation of pfa, nothing raised;
\* the product is returned whatever it is.
compute_cfar_threshold(d, p) ==
    [outcome |-> "returned", value |-> ScaleBy(kstwobign_ppf(p), Sum(d), Len(d))]

NotCalled == [outcome |-> "none", value |-> NaN]

\* Clutter magnitudes in tenths: Gamma variates are >= 0 and the linear NESZ
\* floor is > 0, so every sample is positive.
SampleValues == {1, 10, 25}

RECURSIVE SeqsUpTo(_, _)
SeqsUpTo(S, n) ==
    IF n = 0 THEN {<<>>}
    ELSE LET shorter == SeqsUpTo(S, n - 1)
         IN  shorter \cup {Append(s, x) : s \in {t \in shorter : Len(t) = n - 1}, x \in S}

SampleSets == SeqsUpTo(SampleValues, MaxLen) \ {<<>>}

Scaled(d, c) == [i \in 1 .. Len(d) |-> c * d[i]]

PfaInputs ==
    {Pfa(1, t) : t \in {SliderMinTenths, LastRoundedToOne, LastRoundedToOne + 1,
                        -155, SliderDefaultTenths, -50, -10, -1, SliderMaxTenths, 3}}
    \cup {Pfa(0, 0), Pfa(-1, -3)}

InitThreshold ==
    /\ pc = "call"
    /\ cfar_data \in SampleSets
    /\ cfar_pfa \in PfaInputs
    /\ cfar_other_pfa \in PfaInputs
    /\ factor \in 1 .. MaxFactor
    /\ threshold = NotCalled
    /\ other_threshold = NotCalled
    /\ scaled_threshold = NotCalled

ComputeThreshold ==
    /\ pc = "call"
    /\ threshold' = compute_cfar_threshold(cfar_data, cfar_pfa)
    /\ other_threshold' = compute_cfar_threshold(cfar_data, cfar_other_pfa)
    /\ scaled_threshold' = compute_cfar_threshold(Scaled(cfar_data, factor), cfar_pfa)
    /\ pc' = "done"
    /\ UNCHANGED <<cfar_data, cfar_pfa, cfar_other_pfa, factor>>
    /\ UNCHANGED notThrVars

----------------------------------------------------------------------------
(* compute_roc_curve, with sklearn's roc_curve and auc *)

Zeros(n) == [i \in 1 .. n |-> 0]
Ones(n) == [i \in 1 .. n |-> 1]

\* The elements of a finite set of integers, largest first.
RECURSIVE Descending(_)
Descending(S) ==
    IF S = {} THEN <<>>
    ELSE LET m == CHOOSE x \in S : \A y \in S : y <= x
         IN  <<m>> \o Descending(S \ {m})

Range(s) == {s[i] : i \in 1 .. Len(s)}

\* sklearn's _binary_clf_curve: one entry per distinct score, highest first,
\* counting the negatives (fps) and positives (tps) scored at least that high.
binary_clf_curve(y_true, y_score) ==
    LET cuts == Descending(Range(y_score))
        hits(v, label) ==
            Cardinality({i \in 1 .. Len(y_score) : y_score[i] >= v /\ y_true[i] = label})
    IN  [fps |-> [k \in 1 .. Len(cuts) |-> hits(cuts[k], 0)],
         tps |-> [k \in 1 .. Len(cuts) |-> hits(cuts[k], 1)]]

\* The subsequence of s at the indices in keep, in order.
RECURSIVE Keep(_, _, _)
Keep(s, keep, i) ==
    IF i > Len(s) THEN <<>>
    ELSE (IF i \in keep THEN <<s[i]>> ELSE <<>>) \o Keep(s, keep, i + 1)

\* roc_curve's drop_intermediate: with more than two points, keep the two ends
\* and every point where the second difference of fps or of tps is not zero.
drop_intermediate(c) ==
    LET n == Len(c.fps)
        bend(s, i) == s[i + 1] - 2 * s[i] + s[i - 1] # 0
        keep == {1, n} \cup {i \in 2 .. n - 1 : bend(c.fps, i) \/ bend(c.tps, i)}
    IN  IF n > 2 THEN [fps |-> Keep(c.fps, keep, 1), tps |-> Keep(c.tps, keep, 1)]
        ELSE c

\* count / total as numpy divides: NaN when roc_curve finds no sample of the class.
Rate(count, total) == IF total <= 0 THEN NaN ELSE Finite(count, total)

\* sklearn.metrics.roc_curve(y_true, y_score): the curve, a leading (0, 0)
\* added, each count divided by its last entry.
roc_curve(y_true, y_score) ==
    LET c == drop_intermediate(binary_clf_curve(y_true, y_score))
        fps == <<0>> \o c.fps
        tps == <<0>> \o c.tps
        n == Len(fps)
    IN  [fps |-> fps, tps |-> tps,
         fpr |-> [k \in 1 .. n |-> Rate(fps[k], fps[n])],
         tpr |-> [k \in 1 .. n |-> Rate(tps[k], tps[n])]]

\* Twice the trapezoidal sum of y over x, from index i on.
RECURSIVE Trapezoids(_, _, _)
Trapezoids(x, y, i) ==
    IF i >= Len(x) THEN 0
    ELSE (x[i + 1] - x[i]) * (y[i + 1] + y[i]) + Trapezoids(x, y, i + 1)

\* sklearn.metrics.auc(fpr, tpr) on the curve r: np.trapz of tpr over fpr
\* (fpr never decreases, so the direction is +1); NaN when a rate is NaN.
auc(r) ==
    LET n == Len(r.fps)
    IN  IF r.fps[n] <= 0 \/ r.tps[n] <= 0 THEN NaN
        ELSE Finite(Trapezoids(r.fps, r.tps, 1), 2 * r.fps[n] * r.tps[n])

Sample(v) == Finite(v, 1)

RocResult(labels, detections) ==
    LET r == roc_curve(labels, detections)
    IN  [called |-> TRUE, labels |-> labels, detections |-> detections,
         fpr |-> r.fpr, tpr |-> r.tpr, auc |-> auc(r)]

\* A slip that compares with > instead of >=.
compute_roc_curve_strict(clutter, target, thr) ==
    LET scores == clutter \o target
    IN  RocResult(Zeros(Len(clutter)) \o Ones(Len(target)),
                  [i \in 1 .. Len(scores) |->
                      IF ~Geq(thr, Sample(scores[i])) /\ thr.kind # "nan"
                      THEN 1 ELSE 0])

\* A slip that hands roc_curve the raw scores instead of the binary decisions.
compute_roc_curve_scores(clutter, target, thr) ==
    RocResult(Zeros(Len(clutter)) \o Ones(Len(target)), clutter \o target)

\* compute_roc_curve(clutter_data, target_data, cfar_threshold)
compute_roc_curve(clutter, target, thr) ==
    LET labels == Zeros(Len(clutter)) \o Ones(Len(target))
        scores == clutter \o target
        detections == [i \in 1 .. Len(scores) |->
                          IF Geq(Sample(scores[i]), thr) THEN 1 ELSE 0]
    IN  RocResult(labels, detections)

NoRoc == [called |-> FALSE, labels |-> <<>>, detections |-> <<>>,
          fpr |-> <<>>, tpr |-> <<>>, auc |-> NaN]

Highest(S) == CHOOSE x \in S : \A y \in S : y <= x

RocThresholds ==
    {Sample(v) : v \in SampleValues \cup {0, Highest(SampleValues) + 1}}
    \cup {PosInf, NaN}

InitRoc ==
    /\ pc = "call"
    /\ roc_clutter \in SampleSets
    /\ roc_target \in SampleSets
    /\ roc_threshold \in RocThresholds
    /\ roc = NoRoc

ComputeRoc ==
    /\ pc = "call"
    /\ roc' = compute_roc_curve(roc_clutter, roc_target, roc_threshold)
    /\ pc' = "done"
    /\ UNCHANGED <<roc_clutter, roc_target, roc_threshold>>
    /\ UNCHANGED notRocVars

IdleRoc ==
    /\ roc_clutter = <<>> /\ roc_target = <<>> /\ roc_threshold = NaN /\ roc = NoRoc

----------------------------------------------------------------------------
(* The random stream and the two generators *)

\* A slip that leaves the stream unseeded: every run starts from its own entropy.
SeedFromEntropy(r) == r

\* np.random.seed(0): the seed every run of the notebook starts from.
Seed(r) == 0

\* The stream: its seed and how many variates have been drawn from it.
Stream(seed, pos) == [seed |-> seed, pos |-> pos]

\* n variates of one distribution drawn at the stream's position.
Draw(g, dist, scale, n) ==
    [seed |-> g.seed, at |-> g.pos, len |-> n, dist |-> dist, scale |-> scale]

Advance(g, n) == Stream(g.seed, g.pos + n)

\* A sample set: its length, the draws it is made of (added element-wise, or
\* laid end to end when joined), and the constants added to every sample
\* (nesz: the floors 10^(nesz/10) added; rcs, snr_db: the Rayleigh location).
Samples(len, draws, joined, nesz, loc) ==
    [len |-> len, draws |-> draws, joined |-> joined, nesz |-> nesz, loc |-> loc]

NoLoc == [rcs |-> NoRcs, snr_db |-> 0]

\* The keys of the clutter mapping, in the order the dict is built; the Gamma
\* scale of the i-th key is i.
SeaStateKeys == <<"Sea State 1", "Sea State 2", "Sea State 3", "Sea State 4",
                  "Sea State 5">>
KeyIndex(k) == CHOOSE i \in 1 .. Len(SeaStateKeys) : SeaStateKeys[i] = k

\* Samples drawn per sea state (size=1000 in generate_clutter_data).
ClutterSize == 1000

\* The base sample count plot_sea_state asks generate_target_data for.
TargetSize == 1000

\* generate_clutter_data(nesz): one Gamma(2, scale i) draw of 1000 per key, in
\* key order, each with the linear NESZ floor added.
generate_clutter_data(g, nesz) ==
    LET at(i) == Advance(g, (i - 1) * ClutterSize)
        draw(i) == Draw(at(i), "gamma", i, ClutterSize)
    IN  [outcome |-> "returned",
         rng |-> Advance(g, Len(SeaStateKeys) * ClutterSize),
         drawn |-> [i \in 1 .. Len(SeaStateKeys) |-> draw(i)],
         value |-> [i \in 1 .. Len(SeaStateKeys) |->
                       Samples(ClutterSize, <<draw(i)>>, FALSE, <<nesz>>, NoLoc)]]

NoSamples == Samples(0, <<>>, FALSE, <<>>, NoLoc)

\* A slip that reads an absent RCS as 0 dBsm instead of failing on it.
generate_target_data_none_as_zero(g, rcs, snr_db, size, pixels, nesz) ==
    LET n == size * pixels
        signal == Draw(g, "rayleigh", 15, n)
        noise == Draw(Advance(g, n), "gamma", 2, n)
    IN  [outcome |-> "returned",
         rng |-> Advance(g, 2 * n),
         drawn |-> <<signal, noise>>,
         value |-> Samples(n, <<signal, noise>>, FALSE, <<nesz, nesz>>,
                           [rcs |-> Rcs(IF rcs.some THEN rcs.dbsm ELSE 0),
                            snr_db |-> snr_db])]

\* A slip that forgets the pixel count: size samples instead of size * pixels.
generate_target_data_size_only(g, rcs, snr_db, size, pixels, nesz) ==
    generate_target_data_none_as_zero(g, rcs, snr_db, size, 1, nesz)

\* generate_target_data(rcs, snr_db, size, pixels, nesz): rcs * snr_linear
\* raises TypeError when rcs is None, before anything is drawn; else a Rayleigh
\* draw (scale 1.5) then a Gamma(2, 2) draw of size * pixels each, added up.
generate_target_data(g, rcs, snr_db, size, pixels, nesz) ==
    IF ~rcs.some
    THEN [outcome |-> "TypeError", rng |-> g, drawn |-> <<>>, value |-> NoSamples]
    ELSE LET n == size * pixels
             signal == Draw(g, "rayleigh", 15, n)
             noise == Draw(Advance(g, n), "gamma", 2, n)
         IN  [outcome |-> "returned",
              rng |-> Advance(g, 2 * n),
              drawn |-> <<signal, noise>>,
              value |-> Samples(n, <<signal, noise>>, FALSE, <<nesz, nesz>>,
                                [rcs |-> rcs, snr_db |-> snr_db])]

NotGenerated == [outcome |-> "none", rng |-> Stream(0, 0), drawn |-> <<>>,
                 value |-> NoSamples]

\* NESZ in tenths of a dB (slider -30 .. -15 dB), SNR in dB (slider -10 .. 30).
NeszValues == {-300, -250, -150}
SnrValues == {-10, 0, 30}

CatalogRcs == {target_info(t).rcs : t \in TargetNames}
CatalogPixels ==
    {estimate_pixels(target_info(t).length, Milli(ground_resolution)) : t \in TargetNames}

InitGenerators ==
    /\ pc = "call"
    /\ gen_rng \in {Stream(Seed(1), 0), Stream(Seed(1), Len(SeaStateKeys) * ClutterSize)}
    /\ gen_args \in [rcs : CatalogRcs, snr_db : SnrValues, size : {1, 2, TargetSize},
                     pixels : (1 .. MaxPixels) \cup CatalogPixels, nesz : NeszValues]
    /\ gen_out = NotGenerated

GenerateClutter ==
    /\ pc = "call"
    /\ gen_out' = generate_clutter_data(gen_rng, gen_args.nesz)
    /\ pc' = "clutter"
    /\ UNCHANGED <<gen_rng, gen_args>>
    /\ UNCHANGED notGenVars

GenerateTarget ==
    /\ pc = "call"
    /\ gen_out' = generate_target_data(gen_rng, gen_args.rcs, gen_args.snr_db,
                                       gen_args.size, gen_args.pixels, gen_args.nesz)
    /\ pc' = "target"
    /\ UNCHANGED <<gen_rng, gen_args>>
    /\ UNCHANGED notGenVars

IdleGenerators ==
    /\ gen_rng = Stream(0, 0)
    /\ gen_args = [rcs |-> NoRcs, snr_db |-> 0, size |-> 0, pixels |-> 0, nesz |-> 0]
    /\ gen_out = NotGenerated

----------------------------------------------------------------------------
(* plot_sea_state *)

Runs == {1, 2}

SeaStateOptions == {"All"} \cup Range(SeaStateKeys)

\* A Python local: unbound until it is assigned.
Unbound == [bound |-> FALSE, value |-> <<>>]
Local(v) == [bound |-> TRUE, value |-> v]

Call(fn, a) == [fn |-> fn, args |-> a]

RECURSIVE JoinDraws(_, _)
JoinDraws(sets, i) ==
    IF i > Len(sets) THEN <<>> ELSE sets[i].draws \o JoinDraws(sets, i + 1)

\* np.concatenate(list(clutter_sea_states.values()))
Concatenate(sets) ==
    Samples(Sum([i \in 1 .. Len(sets) |-> sets[i].len]), JoinDraws(sets, 1), TRUE,
            sets[1].nesz, NoLoc)

\* A slip that leaves the target test out of the ROC condition.
roc_requested_any_target(sea_state, target, include_roc) ==
    include_roc /\ sea_state # "All"

\* include_roc and sea_state != 'All' and target != 'None'
roc_requested(sea_state, target, include_roc) ==
    include_roc /\ sea_state # "All" /\ target # "None"

\* One invocation of plot_sea_state on the stream g.  The threshold and the ROC
\* result are kept as what they were computed from.
plot_sea_state(g, sea_state, p, target, snr_db, nesz, include_histogram, include_roc) ==
    LET clutter == generate_clutter_data(g, nesz)
        clutter_data ==
            IF sea_state = "All" THEN Concatenate(clutter.value)
            ELSE clutter.value[KeyIndex(sea_state)]
        info == target_info(target)
        count == estimate_pixels(info.length, Milli(ground_resolution))
        made == IF target # "None"
                THEN generate_target_data(clutter.rng, info.rcs, snr_db, TargetSize,
                                          count, nesz)
                ELSE [outcome |-> "returned", rng |-> clutter.rng, drawn |-> <<>>,
                      value |-> NoSamples]
        target_data == IF target # "None" /\ made.outcome = "returned"
                       THEN Local(made.value) ELSE Unbound
        thresholded == made.outcome = "returned" /\ sea_state # "All"
        cfar_threshold ==
            IF thresholded THEN Local([clutter |-> clutter_data, pfa |-> p]) ELSE Unbound
        wanted == made.outcome = "returned" /\ roc_requested(sea_state, target, include_roc)
        reached == wanted /\ target_data.bound /\ cfar_threshold.bound
    IN  [rng |-> made.rng,
         outcome |-> IF made.outcome # "returned" THEN made.outcome
                     ELSE IF wanted /\ ~reached THEN "UnboundLocalError"
                     ELSE "returned",
         draws |-> clutter.drawn \o made.drawn,
         calls |->
             <<Call("generate_clutter_data", <<nesz>>)>>
             \o (IF target # "None"
                 THEN <<Call("estimate_pixels", <<info.length, Milli(ground_resolution)>>),
                        Call("generate_target_data",
                             <<info.rcs, snr_db, TargetSize, count, nesz>>)>>
                 ELSE <<>>)
             \o (IF thresholded
                 THEN <<Call("compute_cfar_threshold", <<clutter_data, p>>)>> ELSE <<>>)
             \o (IF reached
                 THEN <<Call("compute_roc_curve",
                             <<clutter_data, target_data.value, cfar_threshold.value>>)>>
                 ELSE <<>>),
         clutter_sea_states |-> clutter.value,
         clutter_data |-> clutter_data,
         target_data |-> target_data,
         cfar_threshold |-> cfar_threshold,
         roc |-> IF reached
                 THEN Local([clutter |-> clutter_data, target |-> target_data.value,
                             threshold |-> cfar_threshold.value])
                 ELSE Unbound]

\* A run before its first plot: only the stream exists.
Fresh(g) ==
    [rng |-> g, outcome |-> "none", draws |-> <<>>, calls |-> <<>>,
     clutter_sea_states |-> <<>>, clutter_data |-> NoSamples, target_data |-> Unbound,
     cfar_threshold |-> Unbound, roc |-> Unbound]

NoArgs == [sea_state |-> "All", pfa |-> Pfa(0, 0), target |-> "None", snr_db |-> 0,
           nesz |-> 0, include_histogram |-> FALSE, include_roc |-> FALSE]

\* The slider and checkbox settings tried: the widgets' defaults and one other
\* position of each.
Settings ==
    {[pfa |-> Pfa(1, SliderDefaultTenths), snr_db |-> 0, nesz |-> -250,
      include_histogram |-> TRUE],
     [pfa |-> Pfa(1, SliderMaxTenths), snr_db |-> 10, nesz |-> -150,
      include_histogram |-> FALSE]}

PlotArgs ==
    {[sea_state |-> s, pfa |-> o.pfa, target |-> t, snr_db |-> o.snr_db,
      nesz |-> o.nesz, include_histogram |-> o.include_histogram, include_roc |-> b] :
        s \in SeaStateOptions, t \in TargetNames, b \in BOOLEAN, o \in Settings}

\* np.random.seed(0) has run; nothing has been drawn yet.
InitPlot ==
    /\ pc = "seeded"
    /\ run = [r \in Runs |-> Fresh(Stream(Seed(r), 0))]
    /\ args = NoArgs
    /\ selected = <<>>

\* initial_clutter_data = generate_clutter_data(-25)
InitialClutter ==
    /\ pc = "seeded"
    /\ run' = [r \in Runs |-> Fresh(generate_clutter_data(run[r].rng, -250).rng)]
    /\ pc' = "ready"
    /\ UNCHANGED <<args, selected>>
    /\ UNCHANGED notPlotVars

\* Both runs make the same invocation of plot_sea_state.
PlotSeaState ==
    /\ pc = "ready"
    /\ Len(selected) < MaxCalls
    /\ \E a \in PlotArgs :
          /\ run' = [r \in Runs |->
                        plot_sea_state(run[r].rng, a.sea_state, a.pfa, a.target, a.snr_db,
                                       a.nesz, a.include_histogram, a.include_roc)]
          /\ args' = a
          /\ selected' = Append(selected, a.target)
    /\ UNCHANGED pc
    /\ UNCHANGED notPlotVars

----------------------------------------------------------------------------
(* The widgets and on_selection_change *)

Widget(value, disabled) == [value |-> value, disabled |-> disabled]

\* A slip that greys the ROC checkbox out without clearing it.
on_selection_change_keeps_value(sea_state, target, pfa_w, roc_w) ==
    IF sea_state = "All"
    THEN [pfa |-> Widget(pfa_w.value, TRUE), roc |-> Widget(roc_w.value, TRUE)]
    ELSE IF target = "None"
    THEN [pfa |-> Widget(pfa_w.value, FALSE), roc |-> Widget(roc_w.value, TRUE)]
    ELSE [pfa |-> Widget(pfa_w.value, FALSE), roc |-> Widget(roc_w.value, FALSE)]

\* on_selection_change(change), reading the two dropdowns' current values and
\* returning the PFA slider and the ROC checkbox as it leaves them.
on_selection_change(sea_state, target, pfa_w, roc_w) ==
    IF sea_state = "All"
    THEN [pfa |-> Widget(pfa_w.value, TRUE), roc |-> Widget(FALSE, TRUE)]
    ELSE IF target = "None"
    THEN [pfa |-> Widget(pfa_w.value, FALSE), roc |-> Widget(FALSE, TRUE)]
    ELSE [pfa |-> Widget(pfa_w.value, FALSE), roc |-> Widget(roc_w.value, FALSE)]

\* The widgets as created, then the initial disable of the PFA slider and the
\* ROC checkbox (disabled, value False).
InitWidgets ==
    /\ pc = "displayed"
    /\ sea_state_widget = Widget("All", FALSE)
    /\ pfa_widget = Widget(SliderDefaultTenths, TRUE)
    /\ target_widget = Widget("None", FALSE)
    /\ snr_widget = Widget(0, FALSE)
    /\ nesz_widget = Widget(-250, FALSE)
    /\ hist_widget = Widget(TRUE, FALSE)
    /\ roc_widget = Widget(FALSE, TRUE)

\* The user picks another sea state; the observer on_selection_change runs.
SelectSeaState ==
    /\ \E v \in SeaStateOptions \ {sea_state_widget.value} :
          LET after == on_selection_change(v, target_widget.value, pfa_widget, roc_widget)
          IN  /\ sea_state_widget' = Widget(v, sea_state_widget.disabled)
              /\ pfa_widget' = after.pfa
              /\ roc_widget' = after.roc
    /\ UNCHANGED <<pc, target_widget, snr_widget, nesz_widget, hist_widget>>
    /\ UNCHANGED notUiVars

\* The user picks another target; the observer on_selection_change runs.
SelectTarget ==
    /\ \E v \in TargetNames \ {target_widget.value} :
          LET after == on_selection_change(sea_state_widget.value, v, pfa_widget, roc_widget)
          IN  /\ target_widget' = Widget(v, target_widget.disabled)
              /\ pfa_widget' = after.pfa
              /\ roc_widget' = after.roc
    /\ UNCHANGED <<pc, sea_state_widget, snr_widget, nesz_widget, hist_widget>>
    /\ UNCHANGED notUiVars

\* The user ticks or unticks the ROC checkbox, which a disabled checkbox refuses.
ToggleRoc ==
    /\ ~roc_widget.disabled
    /\ roc_widget' = Widget(~roc_widget.value, FALSE)
    /\ UNCHANGED <<pc, sea_state_widget, pfa_widget, target_widget, snr_widget,
                   nesz_widget, hist_widget>>
    /\ UNCHANGED notUiVars

ToggleHistogram ==
    /\ hist_widget' = Widget(~hist_widget.value, hist_widget.disabled)
    /\ UNCHANGED <<pc, sea_state_widget, pfa_widget, target_widget, snr_widget,
                   nesz_widget, roc_widget>>
    /\ UNCHANGED notUiVars

\* The user moves the PFA slider, which a disabled slider refuses.
MovePfa ==
    /\ ~pfa_widget.disabled
    /\ \E t \in {SliderMinTenths, SliderDefaultTenths, SliderMaxTenths} \ {pfa_widget.value} :
          pfa_widget' = Widget(t, FALSE)
    /\ UNCHANGED <<pc, sea_state_widget, target_widget, snr_widget, nesz_widget,
                   hist_widget, roc_widget>>
    /\ UNCHANGED notUiVars

MoveSnr ==
    /\ \E v \in SnrValues \ {snr_widget.value} : snr_widget' = Widget(v, FALSE)
    /\ UNCHANGED <<pc, sea_state_widget, pfa_widget, target_widget, nesz_widget,
                   hist_widget, roc_widget>>
    /\ UNCHANGED notUiVars

MoveNesz ==
    /\ \E v \in NeszValues \ {nesz_widget.value} : nesz_widget' = Widget(v, FALSE)
    /\ UNCHANGED <<pc, sea_state_widget, pfa_widget, target_widget, snr_widget,
                   hist_widget, roc_widget>>
    /\ UNCHANGED notUiVars

IdleWidgets ==
    /\ sea_state_widget = Widget("All", FALSE)
    /\ pfa_widget = Widget(SliderDefaultTenths, TRUE)
    /\ target_widget = Widget("None", FALSE)
    /\ snr_widget = Widget(0, FALSE)
    /\ nesz_widget = Widget(-250, FALSE)
    /\ hist_widget = Widget(TRUE, FALSE)
    /\ roc_widget = Widget(FALSE, TRUE)

IdlePixels ==
    /\ target_length = 0 /\ other_length = 0 /\ resolution = 0
    /\ est_pixels = 0 /\ est_other_pixels = 0

IdleThreshold ==
    /\ cfar_data = <<>> /\ cfar_pfa = Pfa(0, 0) /\ cfar_other_pfa = Pfa(0, 0) /\ factor = 0
    /\ threshold = NotCalled /\ other_threshold = NotCalled
    /\ scaled_threshold = NotCalled

IdlePlot ==
    /\ run = <<>> /\ args = NoArgs /\ selected = <<>>

vars == <<pc, pixVars, thrVars, rocVars, genVars, plotVars, uiVars>>

\* estimate_pixels applied to drawn inputs.
InitSpecPixels ==
    InitPixels /\ IdleThreshold /\ IdleRoc /\ IdleGenerators /\ IdlePlot /\ IdleWidgets

NextPixels == EstimatePixels

SpecPixels == InitSpecPixels /\ [][NextPixels]_vars

\* compute_cfar_threshold applied to drawn inputs.
InitSpecThreshold ==
    InitThreshold /\ IdlePixels /\ IdleRoc /\ IdleGenerators /\ IdlePlot /\ IdleWidgets

NextThreshold == ComputeThreshold

SpecThreshold == InitSpecThreshold /\ [][NextThreshold]_vars

\* compute_roc_curve applied to drawn inputs.
InitSpecRoc ==
    InitRoc /\ IdlePixels /\ IdleThreshold /\ IdleGenerators /\ IdlePlot /\ IdleWidgets

NextRoc == ComputeRoc

SpecRoc == InitSpecRoc /\ [][NextRoc]_vars

\* The two generators applied to drawn inputs.
InitSpecGenerators ==
    InitGenerators /\ IdlePixels /\ IdleThreshold /\ IdleRoc /\ IdlePlot /\ IdleWidgets

NextGenerators == GenerateClutter \/ GenerateTarget

SpecGenerators == InitSpecGenerators /\ [][NextGenerators]_vars

\* Two runs of the notebook making the same plot_sea_state invocations.
InitSpecPlot ==
    InitPlot /\ IdlePixels /\ IdleThreshold /\ IdleRoc /\ IdleGenerators /\ IdleWidgets

NextPlot == InitialClutter \/ PlotSeaState

SpecPlot == InitSpecPlot /\ [][NextPlot]_vars

\* The displayed widgets under the user's hands.
InitSpecWidgets ==
    InitWidgets /\ IdlePixels /\ IdleThreshold /\ IdleRoc /\ IdleGenerators /\ IdlePlot

NextWidgets ==
    \/ SelectSeaState
    \/ SelectTarget
    \/ ToggleRoc
    \/ ToggleHistogram
    \/ MovePfa
    \/ MoveSnr
    \/ MoveNesz

SpecWidgets == InitSpecWidgets /\ [][NextWidgets]_vars

----------------------------------------------------------------------------
(* The claims *)

\* C1: estimate_pixels returns max(1, ceil(length / resolution)): an integer
\* >= 1, exactly 1 for every length <= resolution (the 'None' entry's length 0
\* included), non-decreasing in the length, and at resolution 10 m the catalogue
\* lengths 9.144, 42.672 and 103.632 give 1, 5 and 11.
PixelsContract ==
    pc = "done" =>
        /\ est_pixels \in Nat /\ est_pixels >= 1
        /\ est_pixels * resolution >= target_length
        /\ (est_pixels > 1 => (est_pixels - 1) * resolution < target_length)
        /\ (target_length <= resolution => est_pixels = 1)
        /\ (target_length <= other_length => est_pixels <= est_other_pixels)
        /\ (resolution = Milli(ground_resolution) =>
               /\ (target_length = 0 => est_pixels = 1)
               /\ (target_length = 9144 => est_pixels = 1)
               /\ (target_length = 42672 => est_pixels = 5)
               /\ (target_length = 103632 => est_pixels = 11))

PixelsWitness ==
    /\ pc = "done"
    /\ resolution = Milli(ground_resolution)
    /\ target_length = 42672 /\ est_pixels = 5
    /\ other_length = 103632 /\ est_other_pixels = 11

\* C2: for fixed clutter data the threshold never gets smaller when PFA gets
\* smaller within (0,1), and multiplying every clutter sample by a positive
\* constant multiplies the threshold by that constant.
ThresholdMonotoneAndProportional ==
    (pc = "done" /\ InOpenUnit(cfar_pfa)) =>
        /\ threshold.outcome = "returned"
        /\ threshold.value.kind \in {"finite", "inf"}
        /\ (InOpenUnit(cfar_other_pfa) /\ PfaLeq(cfar_pfa, cfar_other_pfa)
               => Geq(threshold.value, other_threshold.value))
        /\ Same(scaled_threshold.value, TimesPos(factor, threshold.value))

ThresholdWitness ==
    /\ pc = "done"
    /\ cfar_pfa = Pfa(1, SliderDefaultTenths) /\ cfar_other_pfa = Pfa(1, -10)
    /\ Len(cfar_data) = 2 /\ factor = 3
    /\ threshold.value.kind = "finite"
    /\ ~Geq(other_threshold.value, threshold.value)
    /\ ~Same(scaled_threshold.value, threshold.value)

\* C7: a PFA outside the open interval (0,1) makes compute_cfar_threshold fail
\* with an InvalidParameter error, and no threshold is returned.
PfaOutsideUnitIsRejected ==
    (pc = "done" /\ ~InOpenUnit(cfar_pfa)) => threshold.outcome = "InvalidParameter"

\* C3: compute_roc_curve labels clutter 0 and targets 1, detects a sample when
\* it is >= the threshold, and integrates by the trapezoidal rule: the AUC is 1
\* when every target sample is detected and no clutter sample is, and 1/2 when
\* the clutter and target arrays are identical.
RocLabelsDecisionsAndAuc ==
    pc = "done" =>
        LET n == Len(roc_clutter)
            p == Len(roc_target)
            hit(v) == Geq(Sample(v), roc_threshold)
            tp == Cardinality({i \in 1 .. p : hit(roc_target[i])})
            fp == Cardinality({i \in 1 .. n : hit(roc_clutter[i])})
        IN  /\ Len(roc.labels) = n + p /\ Len(roc.detections) = n + p
            /\ \A i \in 1 .. n :
                   roc.labels[i] = 0 /\ (roc.detections[i] = 1 <=> hit(roc_clutter[i]))
            /\ \A i \in 1 .. p :
                   /\ roc.labels[n + i] = 1
                   /\ roc.detections[n + i] = 1 <=> hit(roc_target[i])
            \* the trapezoids under (0,0), (fp/n, tp/p), (1,1): 1/2 + (tp/p - fp/n)/2
            /\ Same(roc.auc, Finite(n * p + tp * n - fp * p, 2 * n * p))
            /\ (tp = p /\ fp = 0 => Same(roc.auc, Finite(1, 1)))
            /\ (roc_clutter = roc_target => Same(roc.auc, Finite(1, 2)))

RocPerfectWitness ==
    /\ pc = "done"
    /\ Len(roc_clutter) = 2 /\ Len(roc_target) = 3
    /\ \A i \in 1 .. 2 : ~Geq(Sample(roc_clutter[i]), roc_threshold)
    /\ \A i \in 1 .. 3 : Geq(Sample(roc_target[i]), roc_threshold)
    /\ roc_target[1] = 10 /\ roc_threshold = Sample(10)
    /\ Same(roc.auc, Finite(1, 1))

\* C4: for non-empty clutter and target sets, fpr and tpr have equal length,
\* start at (0,0), end at (1,1), never decrease, hold at most one point between
\* the two ends, and the AUC lies in [0,1].
RocCurveShape ==
    (pc = "done" /\ roc_clutter # <<>> /\ roc_target # <<>>) =>
        LET n == Len(roc.fpr)
        IN  /\ Len(roc.tpr) = n
            /\ n \in {2, 3}
            /\ Same(roc.fpr[1], Finite(0, 1)) /\ Same(roc.tpr[1], Finite(0, 1))
            /\ Same(roc.fpr[n], Finite(1, 1)) /\ Same(roc.tpr[n], Finite(1, 1))
            /\ \A i \in 1 .. n - 1 :
                   Geq(roc.fpr[i + 1], roc.fpr[i]) /\ Geq(roc.tpr[i + 1], roc.tpr[i])
            /\ Geq(roc.auc, Finite(0, 1)) /\ Geq(Finite(1, 1), roc.auc)

RocCurveWitness ==
    /\ pc = "done"
    /\ Len(roc.fpr) = 3
    /\ ~Same(roc.fpr[2], Finite(0, 1)) /\ ~Same(roc.fpr[2], Finite(1, 1))
    /\ ~Same(roc.tpr[2], Finite(0, 1)) /\ ~Same(roc.tpr[2], Finite(1, 1))
    /\ ~Geq(roc.auc, Finite(1, 2))

\* C5: generate_clutter_data returns, for any NESZ, exactly five sea-state
\* sets of exactly 1000 samples each; generate_target_data returns exactly
\* size * pixels samples, so 1000 * estimate_pixels(length, 10) for the sets
\* plot_sea_state builds: 11000 for the frigate (103.632 m).
SampleSetSizes ==
    /\ pc = "clutter" =>
          /\ gen_out.outcome = "returned"
          /\ DOMAIN gen_out.value = 1 .. 5
          /\ \A i \in DOMAIN gen_out.value :
                 /\ gen_out.value[i].len = 1000
                 /\ Sum([k \in 1 .. Len(gen_out.value[i].draws) |->
                            gen_out.value[i].draws[k].len]) = 1000
    /\ (pc = "target" /\ gen_args.rcs.some) =>
          /\ gen_out.outcome = "returned"
          /\ gen_out.value.len = gen_args.size * gen_args.pixels
          /\ \A k \in 1 .. Len(gen_out.value.draws) :
                 gen_out.value.draws[k].len = gen_args.size * gen_args.pixels
          /\ \A t \in TargetNames :
                 (/\ gen_args.size = 1000
                  /\ gen_args.pixels =
                        estimate_pixels(target_info(t).length, Milli(ground_resolution)))
                 => /\ gen_out.value.len * Milli(ground_resolution)
                         >= 1000 * target_info(t).length
                    /\ (t = "Warship (Frigate)" => gen_out.value.len = 11000)

SampleSetSizesWitness ==
    /\ pc = "target"
    /\ gen_args.rcs = Rcs(40) /\ gen_args.size = 1000 /\ gen_args.pixels = 11
    /\ gen_out.value.len = 11000

CataloguePixels(t) ==
    CASE t = "None" -> 0
      [] t = "Fishing Vessel" -> 1
      [] t = "Smaller Coaster" -> 5
      [] t = "Warship (Frigate)" -> 11
      [] t = "Bulk Carrier" -> 20

\* Variates one invocation consumes: 5 * 1000, plus 2 * 1000 * pixels with a target.
Consumed(t) == 5000 + 2000 * CataloguePixels(t)

CallsOf(r, fn) == {i \in 1 .. Len(run[r].calls) : run[r].calls[i].fn = fn}

\* C9: in every invocation of plot_sea_state, generate_target_data is called
\* only when target != 'None' (never with rcs = None), compute_cfar_threshold
\* exactly when sea_state != 'All', compute_roc_curve only when include_roc,
\* sea_state != 'All' and target != 'None'; compute_roc_curve is never reached
\* with an unbound cfar_threshold or target_data and always gets a 1000-sample
\* clutter set and a target set of at least 1000 samples.
PlotCallGating ==
    (pc = "ready" /\ selected # <<>>) =>
        \A r \in Runs :
            LET c == run[r].calls IN
            /\ run[r].outcome = "returned"
            /\ Cardinality(CallsOf(r, "generate_clutter_data")) = 1
            /\ Cardinality(CallsOf(r, "generate_target_data")) =
                  IF args.target # "None" THEN 1 ELSE 0
            /\ \A i \in CallsOf(r, "generate_target_data") : c[i].args[1].some
            /\ Cardinality(CallsOf(r, "compute_cfar_threshold")) =
                  IF args.sea_state # "All" THEN 1 ELSE 0
            /\ Cardinality(CallsOf(r, "compute_roc_curve")) <= 1
            /\ \A i \in CallsOf(r, "compute_roc_curve") :
                  /\ args.include_roc /\ args.sea_state # "All" /\ args.target # "None"
                  /\ run[r].target_data.bound /\ run[r].cfar_threshold.bound
                  /\ c[i].args[1].len = 1000
                  /\ c[i].args[2].len >= 1000
                  /\ c[i].args[2].len =
                        1000 * estimate_pixels(target_info(args.target).length,
                                               Milli(ground_resolution))
                  /\ c[i].args[3].clutter = c[i].args[1]

PlotCallGatingWitness ==
    /\ pc = "ready"
    /\ args.include_roc /\ args.sea_state = "Sea State 3"
    /\ args.target = "Warship (Frigate)"
    /\ CallsOf(1, "compute_roc_curve") # {}
    /\ run[1].roc.bound /\ run[1].roc.value.target.len = 11000

Gating ==
    /\ pfa_widget.disabled <=> sea_state_widget.value = "All"
    /\ roc_widget.disabled <=>
          (sea_state_widget.value = "All" \/ target_widget.value = "None")
    /\ roc_widget.disabled => roc_widget.value = FALSE

====
